---- MODULE Spec2Model ----
(***************************************************************************)
(* A model of the HotStuff-style node (node.py), its block (block.py) and  *)
(* the account ledger (distributed_ledger.py, transaction.py).             *)
(*                                                                         *)
(* A node is a record holding the fields HotStuffNode.__init__ creates.    *)
(* Every method is an operator from a node record (and the method's        *)
(* arguments) to the node record the method leaves behind, so the          *)
(* statements of a method compose in the order the code runs them.         *)
(*                                                                         *)
(* Abstractions, all stated where they are made:                           *)
(*  - SHA-256 over the key-sorted JSON is an injective function of the     *)
(*    hashed fields: a hash is the sequence of the hashed fields followed  *)
(*    by the predecessor's hash; the literal "0" is GenesisHash.           *)
(*  - time.time() is never read as a number: the only comparison the node  *)
(*    makes, now - last_batch_time >= batch_interval, is the boolean       *)
(*    batch_due, set by the clock (TimePasses) and reset by a flush.       *)
(*  - a handler runs as one step; the await points inside a flush          *)
(*    (open_connection, drain) do not interleave with other handlers.      *)
(*  - process_message is the message boundary: an inbound step is one      *)
(*    call of process_message with a decoded message (handle_message       *)
(*    decrypts with the node's own Fernet key, node.py line 43, so only a  *)
(*    sender that holds that key gets a message this far).                 *)
(*  - a round step is one call run_consensus_round(transactions), as the   *)
(*    method's signature requires (network.run_node, line 28, builds the   *)
(*    transactions and then calls the method without them).                *)
(*                                                                         *)
(* block.py reads time.time() (line 12) and does not import time: the      *)
(* constructor of Block raises NameError unless the process that embeds    *)
(* the nodes has bound the name in the module.  block_time records which   *)
(* of the two processes this is; it never changes.  Where it is FALSE no   *)
(* block is ever built: propose_block and handle_recovery_data raise.      *)
(***************************************************************************)
EXTENDS Integers, Sequences, FiniteSets, TLC

\* ------------------------------------------------------------------ bounds
MaxRound == 3
MaxScore == 5
MaxChain == 2
MaxBatch == 6

\* --------------------------------------------------------- program constants
checkpoint_interval == 5
ScoreThreshold == 3

\* ------------------------------------------------------------ configuration
\* main.py starts six nodes; the model runs four, the least N with 3f < N, f = 1.
NodeIds == 0 .. 3
Byz == {3}
Honest == NodeIds \ Byz
\* run_consensus_round(transactions): the argument is a list of dicts; a list
\* is named by its code, TxLen gives its length.
TxLists == {1}
TxLen(txs) == txs

\* ------------------------------------------------------------------ block.py
GenesisHash == <<0>>
\* A hash no block has: what a peer sends that votes for some other block.
OtherHash == <<9>>

\* Block.calculate_hash: the digest of transactions, previous_hash, leader_id,
\* round, shard_id (and timestamp, one value per construction; a node builds
\* at most one block per round, so leader_id and round already tell the
\* blocks of honest leaders apart).
calculate_hash(transactions, previous_hash, leader_id, round, shard_id) ==
    <<transactions, leader_id, round, shard_id>> \o previous_hash

\* Block.__init__
Block(transactions, previous_hash, leader_id, round, shard_id) ==
    [ transactions  |-> transactions,
      previous_hash |-> previous_hash,
      leader_id     |-> leader_id,
      round         |-> round,
      shard_id      |-> shard_id,
      hash          |-> calculate_hash(transactions, previous_hash, leader_id, round, shard_id) ]

\* Optional[Block]: None
None == [ transactions |-> 0, previous_hash |-> <<>>, leader_id |-> -1,
          round |-> -1, shard_id |-> -1, hash |-> <<>> ]

\* ------------------------------------------------------------ python values
RECURSIVE SortedList(_)
\* list(set) of small non-negative ints: CPython iterates them in ascending order.
SortedList(S) ==
    IF S = {} THEN <<>>
    ELSE LET m == CHOOSE x \in S : \A y \in S : x <= y
         IN  <<m>> \o SortedList(S \ {m})

\* A dict whose values are all True (prepare_votes and its like) is the
\* sequence of its keys; len() is the number of keys.  The node reads only
\* the length and the membership of a key, never the order, so the sequence
\* lists the keys in ascending order.
DictKeys(d) == { d[i] : i \in 1 .. Len(d) }
DictLen(d) == Len(d)
\* A list of voters in place of the dict: a second vote is a second entry.
DictPut_append(d, k) == Append(d, k)
\* d[k] = True
DictPut(d, k) == IF k \in DictKeys(d) THEN d ELSE SortedList(DictKeys(d) \cup {k})

\* dict.get(k, default) on a dict held as a function
DictGet(d, k, default) == IF k \in DOMAIN d THEN d[k] ELSE default
\* d[k] = v on a dict held as a function
DictSet(d, k, v) == [ x \in (DOMAIN d) \cup {k} |-> IF x = k THEN v ELSE d[x] ]
EmptyDict == [ x \in {} |-> 0 ]

\* ------------------------------------------------------------------ node.py
\* HotStuffNode.__init__: the fields a node is constructed with.
NewNode(node_id, nodes, shard_id) ==
    [ node_id          |-> node_id,
      nodes            |-> nodes,
      shard_id         |-> shard_id,
      current_leader   |-> 0,
      current_round    |-> 0,
      blockchain       |-> <<>>,
      prepare_votes    |-> <<>>,
      precommit_votes  |-> <<>>,
      commit_votes     |-> <<>>,
      current_block    |-> None,
      locked_round     |-> -1,
      locked_block     |-> None,
      byzantine_nodes  |-> {},
      checkpoints      |-> EmptyDict,
      behavior_scores  |-> [ p \in NodeIds |-> 0 ],
      message_batch    |-> <<>>,
      batch_due        |-> FALSE,
      \* shard_adjustment_interval has passed since last_shard_adjustment
      adjust_due       |-> FALSE,
      recovery_requests |-> {},
      shard_leaders    |-> EmptyDict,
      shard_load       |-> EmptyDict,
      \* what the last handler wrote to its sockets, in order; each frame
      \* records whether its recipient was in byzantine_nodes when written
      transmitted      |-> <<>>,
      \* set when the last handler ended by an exception
      raised           |-> FALSE,
      \* history: <<round, hash>> of the last PRECOMMIT the node broadcast, the
      \* block the node reached the pre-commit phase for; <<>> before the first
      precommit_sent   |-> <<>>,
      \* the name time is bound in module block (block.py line 12 reads it;
      \* the module as shipped does not import it)
      block_time       |-> FALSE,
      \* the send_message calls handed to asyncio.create_task and not yet
      \* run, oldest first
      tasks            |-> <<>> ]

\* A decoded message (section 6 of the wire protocol); a field a type does not
\* carry holds its zero.
Message(type, sender_id, round, hash, node_id, shard_id, leader_id, block) ==
    [ type |-> type, sender_id |-> sender_id, round |-> round, hash |-> hash,
      node_id |-> node_id, shard_id |-> shard_id, leader_id |-> leader_id,
      block |-> block ]

VoteMsg(type, sender_id, hash, round) ==
    Message(type, sender_id, round, hash, 0, 0, 0, None)
RecoveryRequestMsg(sender_id, round) ==
    Message("recovery_request", sender_id, round, <<>>, 0, 0, 0, None)
RecoveryResponseMsg(sender_id, round, block) ==
    Message("recovery_response", sender_id, round, <<>>, 0, 0, 0, block)
MembershipMsg(type, sender_id, node_id) ==
    Message(type, sender_id, 0, <<>>, node_id, 0, 0, None)
ShardLeaderMsg(sender_id, shard_id, leader_id) ==
    Message("shard_leader", sender_id, 0, <<>>, 0, shard_id, leader_id, None)

VoteTypes == {"prepare", "precommit", "commit"}

\* propose_block, line 53
PreviousHash(s) ==
    IF s.blockchain /= <<>> THEN s.blockchain[Len(s.blockchain)].hash ELSE GenesisHash

\* HotStuffNode.propose_block; Block() raises NameError where time is unbound.
propose_block(s, transactions) ==
    IF ~s.block_time THEN [s EXCEPT !.raised = TRUE]
    ELSE [s EXCEPT !.current_block =
            Block(transactions, PreviousHash(s), s.current_leader, s.current_round,
                  s.shard_id)]

\* The recipients of a batch, in the order defaultdict(list) first sees them.
RECURSIVE Recipients(_)
Recipients(batch) ==
    IF batch = <<>> THEN <<>>
    ELSE LET r == Head(batch).to
         IN  <<r>> \o Recipients(SelectSeq(Tail(batch), LAMBDA f : f.to /= r))

\* One frame as written to the socket of recipient r.
Written(s, f) == [ to |-> f.to, msg |-> f.msg, to_byz |-> f.to \in s.byzantine_nodes ]

RECURSIVE WriteAll(_, _)
WriteAll(s, frames) ==
    IF frames = <<>> THEN <<>>
    ELSE <<Written(s, Head(frames))>> \o WriteAll(s, Tail(frames))

\* The loop body with a retry: the frames of a failed recipient go back into
\* the batch.
FlushTo_requeue(s, batch, r, fails) ==
    IF r \in fails
    THEN [s EXCEPT !.byzantine_nodes = @ \cup {r},
                   !.behavior_scores[r] = @ + 1,
                   !.message_batch = @ \o SelectSeq(batch, LAMBDA f : f.to = r)]
    ELSE [s EXCEPT !.transmitted =
            @ \o WriteAll(s, SelectSeq(batch, LAMBDA f : f.to = r))]

\* The body of flush_message_batch's loop for one recipient: the connection
\* is opened and the recipient's frames written back to back, or the
\* connection fails (recipient in fails) and the except branch runs.
FlushTo(s, batch, r, fails) ==
    IF r \in fails
    THEN [s EXCEPT !.byzantine_nodes = @ \cup {r},
                   !.behavior_scores[r] = @ + 1]
    ELSE [s EXCEPT !.transmitted =
            @ \o WriteAll(s, SelectSeq(batch, LAMBDA f : f.to = r))]

RECURSIVE FlushLoop(_, _, _, _)
FlushLoop(s, batch, rcpts, fails) ==
    IF rcpts = <<>> THEN s
    ELSE FlushLoop(FlushTo(s, batch, Head(rcpts), fails), batch, Tail(rcpts), fails)

\* HotStuffNode.flush_message_batch; fails is the set of peers whose
\* connection cannot be opened.  The batch is cleared and last_batch_time
\* set before the first connection is opened.
flush_message_batch(s, fails) ==
    IF s.message_batch = <<>> THEN s
    ELSE FlushLoop([s EXCEPT !.message_batch = <<>>, !.batch_due = FALSE],
                   s.message_batch, Recipients(s.message_batch), fails)

\* send_message, lines 73-75: the flush of a batch held for batch_interval.
FlushIfDue(s, fails) == IF s.batch_due THEN flush_message_batch(s, fails) ELSE s

\* HotStuffNode.send_message
send_message(s, message, recipient_id, fails) ==
    IF recipient_id \in s.byzantine_nodes THEN s
    ELSE FlushIfDue([s EXCEPT !.message_batch =
                        Append(@, [to |-> recipient_id, msg |-> message])],
                    fails)

\* for node in active_nodes: if node != self.node_id: await self.send_message(...)
RECURSIVE Broadcast(_, _, _, _)
Broadcast(s, message, targets, fails) ==
    IF targets = <<>> THEN s
    ELSE Broadcast(IF Head(targets) /= s.node_id
                   THEN send_message(s, message, Head(targets), fails)
                   ELSE s,
                   message, Tail(targets), fails)

\* HotStuffNode.receive_vote: the node it leaves and what it returns; "raise"
\* is the AttributeError of self.current_block.hash on a node with no block.
receive_vote(s, vote_type, node_id, block_hash, round) ==
    IF node_id \in s.byzantine_nodes THEN [node |-> s, ret |-> "False"]
    ELSE IF round /= s.current_round THEN [node |-> s, ret |-> "False"]
    ELSE IF s.current_block = None THEN [node |-> s, ret |-> "raise"]
    ELSE IF block_hash /= s.current_block.hash THEN [node |-> s, ret |-> "False"]
    ELSE [ node |-> CASE vote_type = "prepare" ->
                           [s EXCEPT !.prepare_votes = DictPut(@, node_id)]
                      [] vote_type = "precommit" ->
                           [s EXCEPT !.precommit_votes = DictPut(@, node_id)]
                      [] vote_type = "commit" ->
                           [s EXCEPT !.commit_votes = DictPut(@, node_id)]
                      [] OTHER -> s,
           ret |-> "True" ]

\* The guard with >= in place of >.
Quorum_ge(votes, active_nodes) == DictLen(votes) >= (Len(active_nodes) * 2) \div 3

\* len(votes) > len(active_nodes) * 2 // 3
Quorum(votes, active_nodes) == DictLen(votes) > (Len(active_nodes) * 2) \div 3

\* run_consensus_round, lines 193-194
StartRound(s, transactions) ==
    [s EXCEPT !.current_round = @ + 1,
              !.shard_load = DictSet(@, s.shard_id,
                                     DictGet(@, s.shard_id, 0) + TxLen(transactions))]

\* run_consensus_round, line 199
ElectLeader(s, active_nodes) ==
    [s EXCEPT !.current_leader =
        DictGet(s.shard_leaders, s.shard_id,
                active_nodes[(s.current_round % Len(active_nodes)) + 1])]

\* run_consensus_round, lines 203-208: the PREPARE of the block p proposed.
BroadcastProposal(p, active_nodes, fails) ==
    IF p.raised THEN p
    ELSE Broadcast(p, VoteMsg("prepare", p.node_id, p.current_block.hash, p.current_round),
              active_nodes, fails)

\* run_consensus_round, lines 201-208
LeaderStep(s, transactions, active_nodes, fails) ==
    IF s.node_id = s.current_leader
    THEN BroadcastProposal(propose_block(s, transactions), active_nodes, fails)
    ELSE s

\* A broadcast of the current block's hash; reading the hash of no block
\* raises, and the exception ends run_consensus_round.
BroadcastVote(s, type, active_nodes, fails) ==
    IF s.current_block = None THEN [s EXCEPT !.raised = TRUE]
    ELSE Broadcast(s, VoteMsg(type, s.node_id, s.current_block.hash, s.current_round),
                   active_nodes, fails)

\* The history of the PRECOMMIT that node record b has just broadcast.
NotePrecommit(b) ==
    IF b.raised THEN b
    ELSE [b EXCEPT !.precommit_sent = <<b.current_round, b.current_block.hash>>]

\* run_consensus_round, lines 210-216
PrepareStep(s, active_nodes, fails) ==
    IF s.raised THEN s
    ELSE IF Quorum(s.prepare_votes, active_nodes)
    THEN NotePrecommit(BroadcastVote(s, "precommit", active_nodes, fails))
    ELSE s

\* run_consensus_round, lines 218-224
PrecommitStep(s, active_nodes, fails) ==
    IF s.raised THEN s
    ELSE IF Quorum(s.precommit_votes, active_nodes)
    THEN BroadcastVote(s, "commit", active_nodes, fails)
    ELSE s

\* The snapshot taken at every decide.
Checkpoint_always(s) ==
    [s EXCEPT !.checkpoints = DictSet(@, s.current_round, s.current_block)]

\* run_consensus_round, lines 228-230
Checkpoint(s) ==
    IF s.current_round % checkpoint_interval = 0
    THEN [s EXCEPT !.checkpoints = DictSet(@, s.current_round, s.current_block)]
    ELSE s

\* A decide that clears the block and leaves the votes.
ClearRound_keepvotes(s) == [s EXCEPT !.current_block = None]

\* run_consensus_round, lines 232-235
ClearRound(s) ==
    [s EXCEPT !.current_block = None,
              !.prepare_votes = <<>>,
              !.precommit_votes = <<>>,
              !.commit_votes = <<>>]

\* run_consensus_round, lines 227-235: the decide step.
Decide(s) ==
    ClearRound(Checkpoint([s EXCEPT !.blockchain = Append(@, s.current_block)]))

\* run_consensus_round, lines 226-235
CommitStep(s, active_nodes) ==
    IF s.raised THEN s
    ELSE IF Quorum(s.commit_votes, active_nodes) THEN Decide(s)
    ELSE s

\* run_consensus_round, lines 196-235, with active_nodes as line 195 set it.
RoundBody(s, transactions, active_nodes, fails) ==
    IF active_nodes = <<>> THEN s
    ELSE CommitStep(
           PrecommitStep(
             PrepareStep(
               LeaderStep(ElectLeader(s, active_nodes), transactions, active_nodes, fails),
               active_nodes, fails),
             active_nodes, fails),
           active_nodes)

\* The active set taken from the node list the node was built with.
RoundFrom_static(s, transactions, fails) ==
    RoundBody(s, transactions, SortedList(NodeIds \ s.byzantine_nodes), fails)

\* run_consensus_round, from line 195 on.
RoundFrom(s, transactions, fails) ==
    RoundBody(s, transactions, SortedList(s.nodes \ s.byzantine_nodes), fails)

\* The start of a handler: nothing written yet, nothing raised.
Enter(s) == [s EXCEPT !.transmitted = <<>>, !.raised = FALSE]

\* HotStuffNode.run_consensus_round
run_consensus_round(s, transactions, fails) ==
    RoundFrom(StartRound(Enter(s), transactions), transactions, fails)

\* HotStuffNode.send_recovery_data
send_recovery_data(s, node_id, round, fails) ==
    IF round \in DOMAIN s.checkpoints
    THEN send_message(s, RecoveryResponseMsg(s.node_id, round, s.checkpoints[round]),
                      node_id, fails)
    ELSE IF round < Len(s.blockchain)
    THEN send_message(s, RecoveryResponseMsg(s.node_id, round, s.blockchain[round + 1]),
                      node_id, fails)
    ELSE s

\* HotStuffNode.handle_recovery_data: the block is rebuilt from the fields of
\* the message (Block() raises NameError where time is unbound) and its hash
\* is then set to the hash the message carries.
\* blockchain is a python list, indexed from 0: blockchain[round] is the
\* sequence's element round + 1.
handle_recovery_data(s, block, round) ==
    IF ~s.block_time THEN [s EXCEPT !.raised = TRUE]
    ELSE IF round = Len(s.blockchain)
    THEN [s EXCEPT !.blockchain = Append(@, block)]
    ELSE IF round < Len(s.blockchain)
    THEN [s EXCEPT !.blockchain[round + 1] = block]
    ELSE s

\* auto_recover, line 302: `round not in self.recovery_requests` looks an int
\* up in a set whose members are all (node_id, round) tuples; no int is a
\* member of it.
RoundInRequests(s, round) == FALSE

\* auto_recover, line 303: the peers random.choice draws from.
RecoveryPeers(s) == (s.nodes \ s.byzantine_nodes) \ {s.node_id}

\* auto_recover, lines 303-309, for one round; recipient is what random.choice
\* returned (it raises IndexError on an empty list).  The sleep of 0.5 s
\* outlasts batch_interval.
RequestRound(s, round, recipient) ==
    IF RecoveryPeers(s) = {} THEN [s EXCEPT !.raised = TRUE]
    ELSE [send_message(s, RecoveryRequestMsg(s.node_id, round), recipient, {})
            EXCEPT !.recovery_requests = @ \cup {<<s.node_id, round>>},
                   !.batch_due = TRUE]

\* auto_recover, the loop from `round` on; pick[r] is the peer drawn for
\* round r.  range() was evaluated on entry, so the loop runs to
\* target_round whatever happens to the chain.
RECURSIVE RecoverLoop(_, _, _, _)
RecoverLoop(s, round, target_round, pick) ==
    IF round > target_round \/ s.raised THEN s
    ELSE RecoverLoop(IF RoundInRequests(s, round) THEN s
                     ELSE RequestRound(s, round, pick[round]),
                     round + 1, target_round, pick)

\* HotStuffNode.auto_recover
auto_recover(s, target_round, pick) ==
    RecoverLoop(s, Len(s.blockchain), target_round, pick)

\* process_message, lines 141-144 (and 147-150, 153-156): the vote was rejected.
Penalize(s, sender_id) ==
    IF s.behavior_scores[sender_id] + 1 > ScoreThreshold
    THEN [s EXCEPT !.behavior_scores[sender_id] = @ + 1,
                   !.byzantine_nodes = @ \cup {sender_id}]
    ELSE [s EXCEPT !.behavior_scores[sender_id] = @ + 1]

\* What process_message does with r, what receive_vote gave for message m.
AfterVote(r, m) ==
    IF r.ret = "raise" THEN [r.node EXCEPT !.raised = TRUE]
    ELSE IF r.ret = "False" THEN Penalize(r.node, m.sender_id)
    ELSE r.node

\* The three vote branches of process_message (lines 139-156).
process_vote(s, m) ==
    AfterVote(receive_vote(s, m.type, m.sender_id, m.hash, m.round), m)

\* process_message, lines 157-160
process_recovery_request(s, m, fails) ==
    IF <<m.sender_id, m.round>> \notin s.recovery_requests
    THEN send_recovery_data(
            [s EXCEPT !.recovery_requests = @ \cup {<<m.sender_id, m.round>>}],
            m.sender_id, m.round, fails)
    ELSE s

\* process_message after the handler's start.
Dispatch(s, m, fails) ==
    CASE m.type \in VoteTypes -> process_vote(s, m)
      [] m.type = "recovery_request" -> process_recovery_request(s, m, fails)
      [] m.type = "recovery_response" -> handle_recovery_data(s, m.block, m.round)
      [] m.type = "add_node" -> [s EXCEPT !.nodes = @ \cup {m.node_id}]
      [] m.type = "remove_node" -> [s EXCEPT !.nodes = @ \ {m.node_id}]
      [] m.type = "shard_leader" ->
            [s EXCEPT !.shard_leaders = DictSet(@, m.shard_id, m.leader_id)]
      [] OTHER -> s

\* HotStuffNode.process_message
process_message(s, m, fails) == Dispatch(Enter(s), m, fails)

\* sum(self.shard_load.values()) over the keys of keys
RECURSIVE SumLoads(_, _)
SumLoads(d, keys) ==
    IF keys = {} THEN 0
    ELSE d[CHOOSE k \in keys : TRUE]
         + SumLoads(d, keys \ {CHOOSE k \in keys : TRUE})

\* avg_load > 100, where avg_load is sum / len, or 0 for an empty dict
HighLoad(s) ==
    /\ DOMAIN s.shard_load /= {}
    /\ SumLoads(s.shard_load, DOMAIN s.shard_load)
          > 100 * Cardinality(DOMAIN s.shard_load)

\* max(self.shard_load.keys(), default=-1) + 1
NewShardId(s) ==
    IF DOMAIN s.shard_load = {} THEN 0
    ELSE (CHOOSE x \in DOMAIN s.shard_load :
              \A y \in DOMAIN s.shard_load : y <= x) + 1

\* for node in self.nodes: if node != self.node_id: create_task(send_message(...))
RECURSIVE AnnounceTasks(_, _)
AnnounceTasks(message, targets) ==
    IF targets = <<>> THEN <<>>
    ELSE <<[to |-> Head(targets), msg |-> message]>>
         \o AnnounceTasks(message, Tail(targets))

\* HotStuffNode.adjust_shards_if_needed.  leader: what random.choice
\* returns, which raises IndexError on an empty list.
adjust_shards_if_needed(s, leader) ==
    IF ~s.adjust_due \/ ~HighLoad(s) THEN s
    ELSE IF s.nodes \ s.byzantine_nodes = {} THEN [s EXCEPT !.raised = TRUE]
    ELSE [s EXCEPT !.shard_leaders = DictSet(@, NewShardId(s), leader),
                   !.adjust_due = FALSE,
                   !.tasks = @ \o AnnounceTasks(
                                ShardLeaderMsg(s.node_id, NewShardId(s), leader),
                                SortedList(s.nodes \ {s.node_id}))]

\* process_message on a shard_load message, lines 188-190; the branch takes
\* the random choice that Dispatch's branches do not.
process_shard_load(s, shard_id, load, leader) ==
    adjust_shards_if_needed([Enter(s) EXCEPT !.shard_load = DictSet(@, shard_id, load)],
                            leader)

\* The event loop runs the oldest task: one send_message call.
run_task(s, fails) ==
    send_message([Enter(s) EXCEPT !.tasks = Tail(@)],
                 Head(s.tasks).msg, Head(s.tasks).to, fails)

\* HotStuffNode.add_node: the id joins nodes and every other node of the
\* set, the new one included, is sent add_node.
add_node(s, node_id, fails) ==
    Broadcast([s EXCEPT !.nodes = @ \cup {node_id}],
              MembershipMsg("add_node", s.node_id, node_id),
              SortedList(s.nodes \cup {node_id}), fails)

\* HotStuffNode.remove_node: the id leaves nodes and every other node that
\* is left is sent remove_node.
remove_node(s, node_id, fails) ==
    Broadcast([s EXCEPT !.nodes = @ \ {node_id}],
              MembershipMsg("remove_node", s.node_id, node_id),
              SortedList(s.nodes \ {node_id}), fails)

\* ---------------------------------------------------------- transaction.py
\* Transaction.__init__: signature and hash are digests of sender, receiver,
\* amount and timestamp (the hash also of the signature, itself a digest of
\* the same four), so the hash is the sequence of the four.  Amounts are
\* integers here; the floats of the code add without rounding on them.
Transaction(sender, receiver, amount, timestamp) ==
    [ sender |-> sender, receiver |-> receiver, amount |-> amount,
      timestamp |-> timestamp,
      hash |-> <<sender, receiver, amount, timestamp>> ]

\* Transaction.to_dict (the signature is left out: nothing reads it)
to_dict(tx) ==
    [ from |-> tx.sender, to |-> tx.receiver, amount |-> tx.amount,
      timestamp |-> tx.timestamp, hash |-> tx.hash ]

\* ------------------------------------------------------ distributed_ledger.py
\* DistributedLedger.__init__; seed is history: the balances the operator
\* set before the first transaction (main.py lines 29-30).
NewLedger ==
    [ blockchain           |-> <<>>,
      pending_transactions |-> <<>>,
      transaction_map      |-> EmptyDict,
      balances             |-> EmptyDict,
      seed                 |-> EmptyDict ]

\* main.py lines 29-30: balances["Alice"] = balances["Bob"] = amount
SeededLedger(amount) ==
    [NewLedger EXCEPT !.balances = [ a \in {"Alice", "Bob"} |-> amount ],
                      !.seed = [ a \in {"Alice", "Bob"} |-> amount ]]

\* DistributedLedger.add_transaction
add_transaction(l, transaction) ==
    [l EXCEPT !.pending_transactions = Append(@, transaction),
              !.transaction_map = DictSet(@, transaction.hash, transaction)]

\* DistributedLedger.validate_transaction
validate_transaction(l, transaction) ==
    IF transaction.sender \notin DOMAIN l.balances THEN FALSE
    ELSE IF l.balances[transaction.sender] < transaction.amount THEN FALSE
    ELSE TRUE

\* The credit of apply_transaction with the branch on the receiver's account
\* dropped: the receiver's balance is set to the amount.
Credit_overwrite(balances, transaction) ==
    DictSet(balances, transaction.receiver, transaction.amount)

\* apply_transaction, lines 41-44
Credit(balances, transaction) ==
    IF transaction.receiver \in DOMAIN balances
    THEN [balances EXCEPT ![transaction.receiver] = @ + transaction.amount]
    ELSE DictSet(balances, transaction.receiver, transaction.amount)

\* The debit that opens the account of an unknown sender at zero.
Debit_open_at_zero(balances, transaction) ==
    IF transaction.sender \in DOMAIN balances
    THEN [balances EXCEPT ![transaction.sender] = @ - transaction.amount]
    ELSE DictSet(balances, transaction.sender, 0)

\* apply_transaction, lines 36-39
Debit(balances, transaction) ==
    IF transaction.sender \in DOMAIN balances
    THEN [balances EXCEPT ![transaction.sender] = @ - transaction.amount]
    ELSE DictSet(balances, transaction.sender, 0 - transaction.amount)

\* DistributedLedger.apply_transaction, on the balances
apply_transaction(balances, transaction) ==
    Credit(Debit(balances, transaction), transaction)

RECURSIVE to_dicts(_)
\* [tx.to_dict() for tx in transactions]
to_dicts(transactions) ==
    IF transactions = <<>> THEN <<>>
    ELSE <<to_dict(Head(transactions))>> \o to_dicts(Tail(transactions))

\* DistributedLedger.calculate_block_hash: the digest of every key of the
\* block but "hash" (the timestamp is one value per block: index tells the
\* blocks of one ledger apart).
calculate_block_hash(index, transactions, leader_id, round, previous_hash) ==
    <<index, transactions, leader_id, round>> \o previous_hash

\* DistributedLedger.create_block
create_block(l, transactions, leader_id, round) ==
    [ index         |-> Len(l.blockchain) + 1,
      transactions  |-> to_dicts(transactions),
      leader_id     |-> leader_id,
      round         |-> round,
      previous_hash |-> IF l.blockchain /= <<>>
                        THEN l.blockchain[Len(l.blockchain)].hash
                        ELSE GenesisHash,
      hash          |-> calculate_block_hash(
                          Len(l.blockchain) + 1, to_dicts(transactions), leader_id, round,
                          IF l.blockchain /= <<>>
                          THEN l.blockchain[Len(l.blockchain)].hash
                          ELSE GenesisHash) ]

\* add_block, lines 67-70: the Transaction rebuilt from its dict.
FromDict(tx_dict) ==
    [Transaction(tx_dict.from, tx_dict.to, tx_dict.amount, tx_dict.timestamp)
        EXCEPT !.hash = tx_dict.hash]

RECURSIVE ApplyAll(_, _)
\* add_block, lines 66-71: the loop over block["transactions"]
ApplyAll(balances, tx_dicts) ==
    IF tx_dicts = <<>> THEN balances
    ELSE ApplyAll(apply_transaction(balances, FromDict(Head(tx_dicts))), Tail(tx_dicts))

\* DistributedLedger.add_block
add_block(l, block) ==
    [l EXCEPT !.blockchain = Append(@, block),
              !.balances = ApplyAll(@, block.transactions),
              !.pending_transactions = <<>>]

\* DistributedLedger.get_balance
get_balance(l, user) == DictGet(l.balances, user, 0)

\* ------------------------------------------------------------------- state
\* st[n]: the node object of node n.  wire: the frames written to a socket
\* and not yet read by their recipient.  ledger: a DistributedLedger object.
\* proposal: the block create_block returned and add_block has not yet got.
VARIABLES st, wire, ledger, proposal

vars == <<st, wire, ledger, proposal>>

\* Four nodes of one shard, each built with the list of all node ids, as
\* main.py builds its six.
InitNodes ==
    \E b \in BOOLEAN :
        st = [ n \in NodeIds |-> [NewNode(n, NodeIds, 0) EXCEPT !.block_time = b] ]

\* No block
NoBlock == [ index |-> 0 ]

Init ==
    /\ InitNodes
    /\ wire = {}
    /\ ledger = NewLedger
    /\ proposal = NoBlock

\* The frames node record s wrote to its sockets in its last handler.
Frames(s) == { [ to |-> s.transmitted[i].to, msg |-> s.transmitted[i].msg ] :
                 i \in 1 .. Len(s.transmitted) }

\* The sets of peers whose connections fail during one handler of node n.
FailSets(n) == {{}} \cup { {p} : p \in {2} \ {n} }

\* The bounds on what a handler may leave behind.
WithinBounds(s) ==
    /\ s.current_round <= MaxRound
    /\ Len(s.blockchain) <= MaxChain
    /\ Len(s.message_batch) <= MaxBatch
    /\ \A p \in NodeIds : s.behavior_scores[p] <= MaxScore

\* network.run_node: one iteration of the round driver of node n, the sleep
\* and the round after it.  slept: the sleep (1 s, then 3 s) outlasted what
\* was left of batch_interval (0.1 s), as it does unless another handler of
\* the node flushed while the driver slept.
Tick(n, transactions, fails, slept) ==
    /\ st' = [st EXCEPT ![n] =
                run_consensus_round([st[n] EXCEPT !.batch_due = @ \/ slept],
                                    transactions, fails)]
    /\ WithinBounds(st'[n])

\* handle_message: node n reads one frame and calls process_message on it.
Receive(n, m, fails) ==
    /\ st' = [st EXCEPT ![n] = process_message(st[n], m, fails)]
    /\ WithinBounds(st'[n])

\* The clock of node n reaches last_batch_time + batch_interval.
TimePasses(n) ==
    /\ ~st[n].batch_due
    /\ st' = [st EXCEPT ![n].batch_due = TRUE]

\* The clock of node n reaches last_shard_adjustment + shard_adjustment_interval.
AdjustTimePasses(n) ==
    /\ ~st[n].adjust_due
    /\ st' = [st EXCEPT ![n].adjust_due = TRUE]

\* ------------------------------------------------- one node and its peers
\* Self is the node that leads round 1 of the rotation over the four nodes;
\* its peers send it votes, and the Byzantine one also votes that it rejects
\* and shard_leader announcements.
Self == 1
Peers == NodeIds \ {Self}

\* The hashes a vote sent to node record s may carry: its current block's,
\* and some other.
HashMenu(s) == {OtherHash} \cup (IF s.current_block = None THEN {} ELSE {s.current_block.hash})

\* The votes node record s accepts, one per peer and type.
GoodVotes(s) ==
    { VoteMsg(t, p, s.current_block.hash, s.current_round) :
        t \in VoteTypes, p \in IF s.current_block = None THEN {} ELSE Peers }

\* The votes of the Byzantine peers: any hash of the menu, the round of the
\* node or round 0.
ByzVotes(s) ==
    { VoteMsg(t, p, h, r) : t \in VoteTypes, p \in Byz, h \in HashMenu(s),
                            r \in {s.current_round, 0} }

ShardLeaderInputs == { ShardLeaderMsg(p, 0, Self) : p \in Byz }

\* Spec: the votes and the rounds of node Self, its round driver on the
\* schedule of network.run_node.
Next ==
    \/ \E txs \in TxLists : Tick(Self, txs, {}, TRUE) /\ UNCHANGED <<wire, ledger, proposal>>
    \/ \E m \in GoodVotes(st[Self]) \cup ByzVotes(st[Self]) :
          Receive(Self, m, {}) /\ UNCHANGED <<wire, ledger, proposal>>
    \/ \E m \in ShardLeaderInputs :
          Receive(Self, m, {}) /\ UNCHANGED <<wire, ledger, proposal>>

Spec == Init /\ [][Next]_vars

\* SpecTransport: the batch of node Self under a free clock and failing
\* connections; the only votes are those of the Byzantine peers.
NextTransport ==
    \/ \E txs \in TxLists, fails \in FailSets(Self), slept \in BOOLEAN :
          Tick(Self, txs, fails, slept) /\ UNCHANGED <<wire, ledger, proposal>>
    \/ \E m \in ByzVotes(st[Self]) :
          Receive(Self, m, {}) /\ UNCHANGED <<wire, ledger, proposal>>
    \/ \E m \in ShardLeaderInputs :
          Receive(Self, m, {}) /\ UNCHANGED <<wire, ledger, proposal>>
    \/ TimePasses(Self) /\ UNCHANGED <<wire, ledger, proposal>>

SpecTransport == Init /\ [][NextTransport]_vars

\* SpecRecovery: the chain of node Self under its own decisions and the
\* recovery messages of its peers.  The blocks a recovery_response carries:
\* a first block, a block that extends it, and another first block.
BlockA == Block(1, GenesisHash, 0, 1, 0)
BlockB == Block(1, BlockA.hash, 2, 2, 0)
BlockC == Block(1, GenesisHash, 3, 1, 0)
BlockMenu == {BlockA, BlockB, BlockC}

RecoveryResponseInputs ==
    { RecoveryResponseMsg(p, r, b) : p \in Byz, r \in 0 .. MaxChain, b \in BlockMenu }

RecoveryRequestInputs ==
    { RecoveryRequestMsg(p, r) : p \in {0}, r \in 0 .. 1 }

CommitVotes(s) == { m \in GoodVotes(s) : m.type = "commit" }

NextRecovery ==
    \/ \E txs \in TxLists : Tick(Self, txs, {}, TRUE) /\ UNCHANGED <<wire, ledger, proposal>>
    \/ \E m \in CommitVotes(st[Self]) :
          Receive(Self, m, {}) /\ UNCHANGED <<wire, ledger, proposal>>
    \/ \E m \in RecoveryResponseInputs :
          Receive(Self, m, {}) /\ UNCHANGED <<wire, ledger, proposal>>
    \/ \E m \in RecoveryRequestInputs :
          Receive(Self, m, {}) /\ UNCHANGED <<wire, ledger, proposal>>

SpecRecovery == Init /\ [][NextRecovery]_vars

\* ------------------------------------------------------------ auto_recover
\* SpecAutoRecover: node Self catching up: auto_recover is called on it with
\* a target round, recovery responses fill its chain, its rounds go on and
\* the votes of the Byzantine peer get that peer marked.
MaxTarget == 1

\* What random.choice may return over the rounds of one call.
PickMenu == [ 0 .. MaxTarget -> Peers ]

\* auto_recover(target_round) is called on node n, more than batch_interval
\* after its last flush; the handlers of the node that run while it sleeps
\* between two requests are taken to run after it.
AutoRecover(n, target_round, pick) ==
    /\ \A r \in Len(st[n].blockchain) .. target_round :
          pick[r] \in RecoveryPeers(st[n])
    /\ st' = [st EXCEPT ![n] =
                auto_recover(Enter([st[n] EXCEPT !.batch_due = TRUE]),
                             target_round, pick)]
    /\ WithinBounds(st'[n])

NextAutoRecover ==
    \/ \E txs \in TxLists : Tick(Self, txs, {}, TRUE) /\ UNCHANGED <<wire, ledger, proposal>>
    \/ \E target_round \in 0 .. MaxTarget, pick \in PickMenu :
          AutoRecover(Self, target_round, pick) /\ UNCHANGED <<wire, ledger, proposal>>
    \/ \E m \in RecoveryResponseInputs :
          Receive(Self, m, {}) /\ UNCHANGED <<wire, ledger, proposal>>
    \/ \E m \in ByzVotes(st[Self]) :
          Receive(Self, m, {}) /\ UNCHANGED <<wire, ledger, proposal>>

SpecAutoRecover == Init /\ [][NextAutoRecover]_vars

\* ------------------------------------------------------------- catching up
\* SpecConverge: node Self, its chain empty, recovers from peers 0 and 2,
\* which hold the same chain.  The peers get their chain block by block, as
\* recovering nodes do; once both hold all of it auto_recover is called on
\* Self, its requests reach the peers it drew and their responses reach it.
ConvergePeers == {0, 2}
ServedChain == <<BlockA, BlockB>>

FillInputs ==
    { RecoveryResponseMsg(3, i - 1, ServedChain[i]) : i \in 1 .. Len(ServedChain) }

\* Peer p reads a recovery_response that carries a block of the chain.
Fill(p, m) ==
    /\ Receive(p, m, {})
    /\ UNCHANGED <<wire, ledger, proposal>>

\* auto_recover(len(ServedChain) - 1) on Self, every peer holding the chain.
CatchUp(pick) ==
    /\ \A p \in ConvergePeers : st[p].blockchain = ServedChain
    /\ \A r \in DOMAIN pick : pick[r] \in ConvergePeers
    /\ AutoRecover(Self, Len(ServedChain) - 1, pick)
    /\ wire' = wire \cup Frames(st'[Self])
    /\ UNCHANGED <<ledger, proposal>>

\* Node f.to reads frame f; what its handler writes goes on the wire.
ConvergeDeliver(f) ==
    /\ Receive(f.to, f.msg, {})
    /\ wire' = (wire \ {f}) \cup Frames(st'[f.to])
    /\ UNCHANGED <<ledger, proposal>>

NextConverge ==
    \/ \E p \in ConvergePeers, m \in FillInputs : Fill(p, m)
    \/ \E pick \in PickMenu : CatchUp(pick)
    \/ \E f \in wire : ConvergeDeliver(f)
    \/ \E p \in ConvergePeers : TimePasses(p) /\ UNCHANGED <<wire, ledger, proposal>>

SpecConverge == Init /\ [][NextConverge]_vars

\* ------------------------------------------------- two nodes and a traitor
\* SpecBFT: honest nodes 0 and 1 run rounds and read their frames; honest
\* node 2 is silent; node 3 is Byzantine.  Every frame is sent under the id
\* of its sender: the Byzantine node sends membership and shard_leader
\* messages, and commit votes that repeat the hash and round of a frame an
\* honest node sent to it.
Runners == {0, 1}

\* The frames node record s wrote in its last handler to nodes that read.
Sent(s) == { f \in Frames(s) : f.to \in Runners \cup Byz }

\* A round of node n; its frames reach the wire.
BftTick(n) ==
    /\ \E txs \in TxLists : Tick(n, txs, {}, TRUE)
    /\ wire' = wire \cup Sent(st'[n])
    /\ UNCHANGED <<ledger, proposal>>

\* An honest node reads a frame from the wire.
Deliver(f) ==
    /\ f.to \in Runners
    /\ Receive(f.to, f.msg, {})
    /\ wire' = (wire \ {f}) \cup Sent(st'[f.to])
    /\ UNCHANGED <<ledger, proposal>>

\* What Byzantine node b may send to honest node n: the removal of the
\* least honest node n still lists, the announcement that n leads shard 0,
\* and a commit vote that repeats a frame n sent to b in its current round.
ByzMenu(b, n) ==
    { MembershipMsg("remove_node", b, x) :
        x \in { y \in Honest \cap st[n].nodes :
                  \A z \in Honest \cap st[n].nodes : y <= z } }
    \cup { ShardLeaderMsg(b, 0, n) }
    \cup { VoteMsg("commit", b, f.msg.hash, f.msg.round) :
             f \in { g \in wire : /\ g.to = b
                                   /\ g.msg.sender_id = n
                                   /\ g.msg.type \in VoteTypes
                                   /\ g.msg.round = st[n].current_round } }

\* Byzantine node b sends m to honest node n, which reads it.
ByzSend(b, n, m) ==
    /\ Receive(n, m, {})
    /\ wire' = wire \cup Sent(st'[n])
    /\ UNCHANGED <<ledger, proposal>>

NextBFT ==
    \/ \E n \in Runners : BftTick(n)
    \/ \E f \in wire : Deliver(f)
    \/ \E b \in Byz, n \in Runners : \E m \in ByzMenu(b, n) : ByzSend(b, n, m)

SpecBFT == Init /\ [][NextBFT]_vars

\* ------------------------------------------------------------ four nodes
\* SpecHappy: the four nodes of one shard all run the code, every frame a
\* node writes reaches the wire and every frame on the wire is read by the
\* node it is addressed to; no connection fails.
HappyTick(n) ==
    /\ \E txs \in TxLists : Tick(n, txs, {}, TRUE)
    /\ wire' = wire \cup Frames(st'[n])
    /\ UNCHANGED <<ledger, proposal>>

\* Node f.to reads frame f from the wire.
HappyDeliver(f) ==
    /\ Receive(f.to, f.msg, {})
    /\ wire' = (wire \ {f}) \cup Frames(st'[f.to])
    /\ UNCHANGED <<ledger, proposal>>

NextHappy ==
    \/ \E n \in NodeIds : HappyTick(n)
    \/ \E f \in wire : HappyDeliver(f)

SpecHappy == Init /\ [][NextHappy]_vars

\* ------------------------------------------------------------ checkpoints
\* SpecCheckpoint: node Self over the rounds up to the first whose number is
\* a multiple of checkpoint_interval, under the commit votes of its peers
\* and the shard_leader announcement that makes it lead every round.
MaxCheckpointRound == 5

\* The bounds on what a handler may leave behind.
LongBounds(s) ==
    /\ s.current_round <= MaxCheckpointRound
    /\ Len(s.blockchain) <= MaxChain
    /\ Len(s.message_batch) <= MaxBatch

\* network.run_node: one iteration of the round driver of node n.
LongTick(n, transactions) ==
    /\ st' = [st EXCEPT ![n] =
                run_consensus_round([st[n] EXCEPT !.batch_due = TRUE],
                                    transactions, {})]
    /\ LongBounds(st'[n])

\* handle_message: node n reads one frame and calls process_message on it.
LongReceive(n, m) ==
    /\ st' = [st EXCEPT ![n] = process_message(st[n], m, {})]
    /\ LongBounds(st'[n])

NextCheckpoint ==
    \/ \E txs \in TxLists : LongTick(Self, txs) /\ UNCHANGED <<wire, ledger, proposal>>
    \/ \E m \in CommitVotes(st[Self]) :
          LongReceive(Self, m) /\ UNCHANGED <<wire, ledger, proposal>>
    \/ \E m \in ShardLeaderInputs :
          LongReceive(Self, m) /\ UNCHANGED <<wire, ledger, proposal>>

SpecCheckpoint == Init /\ [][NextCheckpoint]_vars

\* ------------------------------------------------------------- membership
\* SpecMembership: node Self under membership changes: the add_node and
\* remove_node messages of a peer, its own add_node and remove_node calls,
\* its rounds and the commit votes of its peers.
MembershipInputs ==
    { MembershipMsg(t, 0, x) : t \in {"add_node", "remove_node"}, x \in NodeIds }

\* The operator calls add_node(node_id) on node n, more than batch_interval
\* after the node's last flush.
AddNodeCall(n, node_id) ==
    /\ st' = [st EXCEPT ![n] =
                add_node(Enter([st[n] EXCEPT !.batch_due = TRUE]), node_id, {})]
    /\ WithinBounds(st'[n])

\* The operator calls remove_node(node_id) on node n, more than
\* batch_interval after the node's last flush.
RemoveNodeCall(n, node_id) ==
    /\ st' = [st EXCEPT ![n] =
                remove_node(Enter([st[n] EXCEPT !.batch_due = TRUE]), node_id, {})]
    /\ WithinBounds(st'[n])

NextMembership ==
    \/ \E txs \in TxLists : Tick(Self, txs, {}, TRUE) /\ UNCHANGED <<wire, ledger, proposal>>
    \/ \E m \in CommitVotes(st[Self]) :
          Receive(Self, m, {}) /\ UNCHANGED <<wire, ledger, proposal>>
    \/ \E m \in MembershipInputs :
          Receive(Self, m, {}) /\ UNCHANGED <<wire, ledger, proposal>>
    \/ AddNodeCall(Self, 2) /\ UNCHANGED <<wire, ledger, proposal>>
    \/ RemoveNodeCall(Self, 2) /\ UNCHANGED <<wire, ledger, proposal>>

SpecMembership == Init /\ [][NextMembership]_vars

\* --------------------------------------------------------------- the ledger
\* LedgerSpec: one ledger, seeded as main.py seeds it, under the calls of
\* its owner: transactions are admitted, the leader proposes the pending
\* transactions that validate, or creates the block of the pending
\* transactions as they are, and commits the block, and blocks of other
\* leaders are committed as they are decided.
MaxPending == 2
MaxBlocks == 2

SeedMenu == {2, 3}
TxMenu ==
    { Transaction("Alice", "Bob", 2, 0), Transaction("Alice", "Carol", 2, 0),
      Transaction("Carol", "Alice", 1, 0), Transaction("Dave", "Bob", 1, 0) }
Accounts == {"Alice", "Bob", "Carol", "Dave"}
\* The transaction lists of the blocks of other leaders.
ForeignMenu ==
    { <<tx>> : tx \in TxMenu } \cup { <<Transaction("Carol", "Alice", 1, 0),
                                        Transaction("Alice", "Carol", 2, 0)>> }

InitLedger ==
    /\ InitNodes
    /\ wire = {}
    /\ \E amount \in SeedMenu : ledger = SeededLedger(amount)
    /\ proposal = NoBlock

\* admit: add_transaction(tx)
AddTransaction(tx) ==
    /\ Len(ledger.pending_transactions) < MaxPending
    /\ ledger' = add_transaction(ledger, tx)
    /\ UNCHANGED <<st, wire, proposal>>

\* The pending transactions that pass validate_transaction, in order.
ValidPending(l) ==
    SelectSeq(l.pending_transactions, LAMBDA tx : validate_transaction(l, tx))

\* propose: the leader filters pending by validate and creates the block.
ProposeBlock(leader_id) ==
    /\ proposal = NoBlock
    /\ Len(ledger.blockchain) < MaxBlocks
    /\ proposal' = create_block(ledger, ValidPending(ledger), leader_id,
                                Len(ledger.blockchain) + 1)
    /\ UNCHANGED <<st, wire, ledger>>

\* create_block(transactions, leader_id, round), called with the pending
\* transactions as they are.
CreateBlock(leader_id) ==
    /\ proposal = NoBlock
    /\ Len(ledger.blockchain) < MaxBlocks
    /\ proposal' = create_block(ledger, ledger.pending_transactions, leader_id,
                                Len(ledger.blockchain) + 1)
    /\ UNCHANGED <<st, wire, ledger>>

\* commit: add_block(block) of the block proposed.
CommitBlock ==
    /\ proposal /= NoBlock
    /\ ledger' = add_block(ledger, proposal)
    /\ proposal' = NoBlock
    /\ UNCHANGED <<st, wire>>

\* commit of a block another leader created on its copy of the ledger.
CommitForeign(txs, leader_id) ==
    /\ proposal = NoBlock
    /\ Len(ledger.blockchain) < MaxBlocks
    /\ ledger' = add_block(ledger, create_block(ledger, txs, leader_id,
                                                Len(ledger.blockchain) + 1))
    /\ UNCHANGED <<st, wire, proposal>>

NextLedger ==
    \/ \E tx \in TxMenu : AddTransaction(tx)
    \/ ProposeBlock(0)
    \/ CreateBlock(0)
    \/ CommitBlock
    \/ \E txs \in ForeignMenu : CommitForeign(txs, 1)

LedgerSpec == InitLedger /\ [][NextLedger]_vars

\* ------------------------------------------------------------------ claims
\* The active set of node record s: nodes minus byzantine_nodes.
Active(s) == SortedList(s.nodes \ s.byzantine_nodes)

\* The frames node record s holds in its batch or wrote in its last handler.
Emitted(s) ==
    { s.message_batch[i].msg : i \in 1 .. Len(s.message_batch) }
    \cup { s.transmitted[i].msg : i \in 1 .. Len(s.transmitted) }

\* The block node record s is locked on is not in its chain.
LockPending(s) ==
    /\ s.precommit_sent /= <<>>
    /\ \A i \in 1 .. Len(s.blockchain) : s.blockchain[i].hash /= s.precommit_sent[2]

\* C4 (as the claim states it, and only while B is not yet in the chain, so
\* that a block that extends a committed B does not count): a node that
\* reached the pre-commit phase for block B in round r (the lock of B) emits
\* no PREPARE in a round r' > r for a block whose hash is not B's, and
\* accepts no prepare vote for such a block.
C4_LockRefusesConflictingPrepare ==
    [][ \A n \in Honest :
          LockPending(st[n]) =>
            /\ \A m \in Emitted(st'[n]) :
                  (m.type = "prepare" /\ m.sender_id = n
                     /\ m.round > st[n].precommit_sent[1])
                      => m.hash = st[n].precommit_sent[2]
            /\ ( /\ st[n].current_round > st[n].precommit_sent[1]
                 /\ DictLen(st'[n].prepare_votes) > DictLen(st[n].prepare_votes) )
                      => st[n].current_block.hash = st[n].precommit_sent[2] ]_vars

\* The fields the lock would live in are never written.
LockNeverRecorded ==
    \A n \in Honest : st[n].locked_block = None /\ st[n].locked_round = -1

\* C6 (as the claim states it, in its weakest reading: the next contiguous
\* index): a round tick of node n that finds a commit quorum for its current
\* block B appends B to the chain.
C6_CommitQuorumAppendsVotedBlock ==
    [][ \A n \in Honest :
          ( /\ st'[n].current_round = st[n].current_round + 1
            /\ st[n].current_block /= None
            /\ Active(st[n]) /= <<>>
            /\ Quorum(st[n].commit_votes, Active(st[n])) )
          => st'[n].blockchain = Append(st[n].blockchain, st[n].current_block) ]_vars

\* C10: a vote that receive_vote accepts, processed a second time, is accepted
\* again and leaves the node as the first processing left it; no voter is
\* counted twice in a vote set.
C10_VoteIdempotent ==
    \A n \in Honest :
        /\ \A m \in GoodVotes(st[n]) \cup ByzVotes(st[n]) :
              LET r1 == receive_vote(st[n], m.type, m.sender_id, m.hash, m.round)
                  r2 == receive_vote(r1.node, m.type, m.sender_id, m.hash, m.round)
              IN  r1.ret = "True" => (r2.ret = "True" /\ r2.node = r1.node)
        /\ \A d \in {st[n].prepare_votes, st[n].precommit_votes, st[n].commit_votes} :
              DictLen(d) = Cardinality(DictKeys(d))

\* C10: a state in which votes were accepted from two peers for each phase,
\* and each is still a vote the node accepts: processing it again is a step
\* that ends in this same state.
C10_Witness ==
    /\ DictLen(st[Self].prepare_votes) >= 2
    /\ DictLen(st[Self].commit_votes) >= 2
    /\ \A p \in DictKeys(st[Self].prepare_votes) :
          receive_vote(st[Self], "prepare", p, st[Self].current_block.hash,
                       st[Self].current_round).ret = "True"

\* C5 (as the claim states it): no frame is written to the socket of a peer
\* that is in the node's byzantine_nodes when it is written.
C5_NoFrameToByzantine ==
    \A n \in Honest :
        \A i \in 1 .. Len(st[n].transmitted) : ~st[n].transmitted[i].to_byz

\* chain is a prefix of chain2
IsPrefix(chain, chain2) ==
    /\ Len(chain) <= Len(chain2)
    /\ \A i \in 1 .. Len(chain) : chain[i] = chain2[i]

\* C2 (as the claim states it): the first block of every chain has the
\* predecessor hash "0" and every later block the hash of the block before it.
C2_HashLinked ==
    \A n \in Honest :
        LET chain == st[n].blockchain
        IN  /\ chain /= <<>> => chain[1].previous_hash = GenesisHash
            /\ \A i \in 2 .. Len(chain) : chain[i].previous_hash = chain[i - 1].hash

\* C3 (as the claim states it): every step leaves the old chain a prefix of
\* the new one.
C3_AppendOnly ==
    [][ \A n \in Honest : IsPrefix(st[n].blockchain, st'[n].blockchain) ]_vars

RECURSIVE ChainTxs(_)
\* The transaction dicts of a ledger chain, in chain and block order.
ChainTxs(chain) ==
    IF chain = <<>> THEN <<>>
    ELSE Head(chain).transactions \o ChainTxs(Tail(chain))

RECURSIVE Credits(_, _)
\* The sum of the amounts the transaction dicts txs pay to account a.
Credits(a, txs) ==
    IF txs = <<>> THEN 0
    ELSE (IF Head(txs).to = a THEN Head(txs).amount ELSE 0) + Credits(a, Tail(txs))

RECURSIVE Debits(_, _)
\* The sum of the amounts the transaction dicts txs take from account a.
Debits(a, txs) ==
    IF txs = <<>> THEN 0
    ELSE (IF Head(txs).from = a THEN Head(txs).amount ELSE 0) + Debits(a, Tail(txs))

\* C7: after any sequence of commits every sender and receiver of a committed
\* transaction has an account, and every account's balance is its seeded
\* balance (0 for an account created by a commit) plus the credits minus the
\* debits of all transactions in the chain.
C7_BalanceProjection ==
    LET txs == ChainTxs(ledger.blockchain)
    IN  /\ \A i \in 1 .. Len(txs) :
              {txs[i].from, txs[i].to} \subseteq DOMAIN ledger.balances
        /\ \A a \in Accounts :
              get_balance(ledger, a) = DictGet(ledger.seed, a, 0) + Credits(a, txs)
                                         - Debits(a, txs)

\* C7: two blocks are committed, an account was created by a credit and one
\* by a debit, and some account was both credited and debited.
C7_Witness ==
    /\ Len(ledger.blockchain) = 2
    /\ {"Carol", "Dave"} \subseteq DOMAIN ledger.balances
    /\ \E a \in DOMAIN ledger.balances :
          /\ Credits(a, ChainTxs(ledger.blockchain)) > 0
          /\ Debits(a, ChainTxs(ledger.blockchain)) > 0

\* C8 (as the claim states it): the commit of a proposed block, all of whose
\* transactions passed validate_transaction when it was proposed (balances
\* do not change between the proposal and its commit), leaves no sender of
\* the block below zero.
C8_ValidatedNeverNegative ==
    [][ ( /\ proposal /= NoBlock /\ proposal' = NoBlock
          /\ \A i \in 1 .. Len(proposal.transactions) :
                validate_transaction(ledger, FromDict(proposal.transactions[i])) )
        => \A i \in 1 .. Len(proposal.transactions) :
              ledger'.balances[proposal.transactions[i].from] >= 0 ]_vars

\* C9 (as the claim states it): however often a transaction is admitted,
\* pending holds one entry for its hash and transaction_map one.
C9_DuplicateAdmitNoOp ==
    /\ \A i, j \in 1 .. Len(ledger.pending_transactions) :
          ledger.pending_transactions[i].hash = ledger.pending_transactions[j].hash
             => i = j
    /\ \A tx \in TxMenu :
          Cardinality({ h \in DOMAIN ledger.transaction_map : h = tx.hash }) <= 1

\* C1 (as the claim states it): no two honest nodes hold, appended by the
\* commit step of run_consensus_round, different blocks of the same round.
C1_Agreement ==
    \A n \in Honest, m \in Honest :
        \A i \in 1 .. Len(st[n].blockchain), j \in 1 .. Len(st[m].blockchain) :
            st[n].blockchain[i].round = st[m].blockchain[j].round
               => st[n].blockchain[i] = st[m].blockchain[j]

\* The votes a peer may send to node record s: those it accepts and those
\* of the Byzantine peers.
VoteInputs(s) == GoodVotes(s) \cup ByzVotes(s)

\* The condition under which the engine accepts vote m at node record s.
Acceptable(s, m) ==
    /\ m.sender_id \notin s.byzantine_nodes
    /\ m.round = s.current_round
    /\ s.current_block /= None
    /\ m.hash = s.current_block.hash

\* The three vote dicts of node record s.
VoteSets(s) == <<s.prepare_votes, s.precommit_votes, s.commit_votes>>

\* C11 (as the claim states it): receive_vote returns true, with the voter in
\* the dict of the vote's type, exactly when the voter is not Byzantine, the
\* round is the current round, there is a current block and the hash is its
\* hash; in every other case it returns false and leaves the three vote
\* dicts as they were.
C11_AcceptIffAllFour ==
    \A n \in Honest : \A m \in VoteInputs(st[n]) :
        LET r == receive_vote(st[n], m.type, m.sender_id, m.hash, m.round)
        IN  IF Acceptable(st[n], m)
            THEN /\ r.ret = "True"
                 /\ m.sender_id \in DictKeys(
                       CASE m.type = "prepare" -> r.node.prepare_votes
                         [] m.type = "precommit" -> r.node.precommit_votes
                         [] OTHER -> r.node.commit_votes)
            ELSE /\ r.ret = "False"
                 /\ VoteSets(r.node) = VoteSets(st[n])

\* C12 (as the claim states it): a vote that is not accepted adds exactly one
\* to the sender's behavior score, and the sender is in byzantine_nodes as
\* soon as the score exceeds 3.
C12_RejectedVotePenalized ==
    \A n \in Honest : \A m \in VoteInputs(st[n]) :
        LET after == process_message(st[n], m, {})
        IN  ~Acceptable(st[n], m) =>
              /\ after.behavior_scores[m.sender_id]
                    = st[n].behavior_scores[m.sender_id] + 1
              /\ after.behavior_scores[m.sender_id] > ScoreThreshold
                    => m.sender_id \in after.byzantine_nodes

\* C13 (as the claim states it): a peer is in a node's byzantine_nodes only
\* if the node's behavior score for it exceeds 3.
C13_ByzantineOnlyAboveThreshold ==
    \A n \in Honest : \A p \in st[n].byzantine_nodes :
        st[n].behavior_scores[p] > ScoreThreshold

\* What peer p may send to node record s, of every type process_message
\* dispatches on.
InboundFrom(p, s) ==
    { VoteMsg(t, p, h, s.current_round) : t \in VoteTypes, h \in HashMenu(s) }
    \cup { RecoveryRequestMsg(p, 0), ShardLeaderMsg(p, 0, p),
           MembershipMsg("add_node", p, p), MembershipMsg("remove_node", p, 0) }
    \cup { RecoveryResponseMsg(p, 0, b) : b \in BlockMenu }

\* C14 (as the claim states it): a message whose sender is in the node's
\* byzantine_nodes changes none of the chain, the node set, the shard
\* tables and the vote dicts, and puts no frame in the batch.
C14_ByzantineSenderDropped ==
    \A n \in Honest : \A p \in st[n].byzantine_nodes : \A m \in InboundFrom(p, st[n]) :
        LET after == process_message(st[n], m, {})
        IN  /\ after.blockchain = st[n].blockchain
            /\ after.nodes = st[n].nodes
            /\ after.shard_leaders = st[n].shard_leaders
            /\ after.shard_load = st[n].shard_load
            /\ VoteSets(after) = VoteSets(st[n])
            /\ after.message_batch = st[n].message_batch

\* v votes are a strict super-majority of n active nodes: v > floor(2n/3),
\* which for integers is 3v > 2n.
SuperMajority(v, n) == 3 * v > 2 * n

\* (A broadcast shows in the frames of a node that has a peer to send to.)
\* Node record s2, left by a round tick, holds a frame of the given type that
\* the node sent in the round of the tick.
SentInRound(s2, type) ==
    \E m \in Emitted(s2) :
        m.type = type /\ m.sender_id = s2.node_id /\ m.round = s2.current_round

\* C15: in every round tick that does not end by an exception, each phase
\* guard fires exactly when the vote dict of its phase holds more than
\* floor(2*|active|/3) voters, active being nodes minus byzantine_nodes:
\* PRECOMMIT is broadcast iff the prepare votes do, COMMIT iff the pre-commit
\* votes do, and the chain grows (by one block) iff the commit votes do; with
\* four active nodes this is at least 3 votes and with three it is all 3.
C15_QuorumArithmetic ==
    [][ \A n \in Honest :
          ( /\ st'[n].current_round = st[n].current_round + 1
            /\ ~st'[n].raised
            /\ Len(Active(st[n])) > 1 )
          => LET a == Len(Active(st[n]))
             IN  /\ SentInRound(st'[n], "precommit")
                      <=> SuperMajority(DictLen(st[n].prepare_votes), a)
                 /\ SentInRound(st'[n], "commit")
                      <=> SuperMajority(DictLen(st[n].precommit_votes), a)
                 /\ Len(st'[n].blockchain) = Len(st[n].blockchain) + 1
                      <=> SuperMajority(DictLen(st[n].commit_votes), a)
                 /\ Len(st'[n].blockchain) \in
                      {Len(st[n].blockchain), Len(st[n].blockchain) + 1}
                 /\ a = 4 => (SentInRound(st'[n], "precommit")
                                <=> DictLen(st[n].prepare_votes) >= 3)
                 /\ a = 3 => (Len(st'[n].blockchain) > Len(st[n].blockchain)
                                <=> DictLen(st[n].commit_votes) = 3) ]_vars

\* C15: a node with three active nodes (the fourth is in byzantine_nodes)
\* that holds the commit votes of three voters and has decided a block
\* before: the next tick decides with all 3 of 3.
C15_Witness ==
    /\ Len(Active(st[Self])) = 3
    /\ DictLen(st[Self].commit_votes) = 3
    /\ DictLen(st[Self].prepare_votes) = 2
    /\ Len(st[Self].blockchain) = 1

\* C16 (as the claim states it): a round tick of a node that is the only
\* active node grows its chain by exactly one block.
C16_SoleNodeDecidesEveryRound ==
    [][ \A n \in Honest :
          ( /\ Active(st[n]) = <<n>>
            /\ st'[n].current_round = st[n].current_round + 1 )
          => Len(st'[n].blockchain) = Len(st[n].blockchain) + 1 ]_vars

\* C18: add_node{id} leaves the node set with id added and remove_node{id}
\* with id taken out; and a round tick that does not end by an exception
\* decides exactly when the commit votes are a strict super-majority of the
\* active set as the membership messages have left it (never, if it is empty).
C18_MembershipChangesActiveSet ==
    /\ [] (\A n \in Honest : \A m \in MembershipInputs :
             process_message(st[n], m, {}).nodes =
                IF m.type = "add_node" THEN st[n].nodes \cup {m.node_id}
                                       ELSE st[n].nodes \ {m.node_id})
    /\ [][ \A n \in Honest :
             ( /\ st'[n].current_round = st[n].current_round + 1
               /\ ~st'[n].raised )
             => ( Len(st'[n].blockchain) = Len(st[n].blockchain) + 1
                    <=> /\ st[n].nodes \ st[n].byzantine_nodes /= {}
                        /\ SuperMajority(DictLen(st[n].commit_votes),
                              Cardinality(st[n].nodes \ st[n].byzantine_nodes)) ) ]_vars

\* C18: the chain holds a block of round 2 that Self proposed; of the four
\* nodes it was built with Self does not lead round 2, so the node set had
\* changed when the block was proposed and decided.
C18_Witness ==
    /\ st[Self].nodes /= NodeIds
    /\ \E i \in 1 .. Len(st[Self].blockchain) :
          /\ st[Self].blockchain[i].round = 2
          /\ st[Self].blockchain[i].leader_id = Self

\* Every node has run all its rounds and no frame waits to be read.
Quiescent ==
    /\ wire = {}
    /\ \A n \in NodeIds : st[n].current_round = MaxRound

\* C17 (as the claim states it): with four nodes running the code, no
\* connection failing and every frame on the wire read, once every node has
\* run its rounds and no frame is left to read, every node's chain holds a
\* block.
C17_HappyPathDecides ==
    Quiescent => \A n \in NodeIds : Len(st[n].blockchain) >= 1

\* The transactions of block b, rebuilt from their dicts.
BlockTxs(b) == [ i \in 1 .. Len(b.transactions) |-> FromDict(b.transactions[i]) ]

\* C19 (as the claim states it): a step that returns a proposed block leaves
\* the ledger (chain and balances) as it was, and every transaction of the
\* block has a sender with an account whose balance at that time covers the
\* amount.
C19_ProposalPureAndValidated ==
    [][ (proposal = NoBlock /\ proposal' /= NoBlock)
          => /\ ledger'.blockchain = ledger.blockchain
             /\ ledger'.balances = ledger.balances
             /\ \A i \in 1 .. Len(proposal'.transactions) :
                  LET tx == BlockTxs(proposal')[i]
                  IN  /\ tx.sender \in DOMAIN ledger.balances
                      /\ ledger.balances[tx.sender] >= tx.amount ]_vars

\* C20 (as the claim states it): the commit of a block leaves in pending, in
\* their order, exactly the pending transactions that are not in the block.
C20_CommitKeepsOtherPending ==
    [][ Len(ledger'.blockchain) = Len(ledger.blockchain) + 1
          => ledger'.pending_transactions =
               SelectSeq(ledger.pending_transactions,
                         LAMBDA tx : \A i \in 1 .. Len(ledger'.blockchain[Len(ledger'.blockchain)].transactions) :
                                       BlockTxs(ledger'.blockchain[Len(ledger'.blockchain)])[i].hash /= tx.hash) ]_vars

\* The three vote dicts of node record s are empty.
NoVotes(s) ==
    /\ DictLen(s.prepare_votes) = 0
    /\ DictLen(s.precommit_votes) = 0
    /\ DictLen(s.commit_votes) = 0

\* C21 (as the claim states it): a round tick that does not decide leaves no
\* vote of the round before in prepare_votes, precommit_votes or
\* commit_votes; the tick accepts no vote itself, so it leaves them empty.
C21_VotesNeverCarriedOver ==
    [][ \A n \in Honest :
          ( /\ st'[n].current_round = st[n].current_round + 1
            /\ st'[n].blockchain = st[n].blockchain )
          => NoVotes(st'[n]) ]_vars

\* C22 (as the claim states it): the block a round tick appends by its decide
\* step carries the round the node is in when it appends it.
C22_DecidedBlockOfCurrentRound ==
    [][ \A n \in Honest :
          ( /\ st'[n].current_round = st[n].current_round + 1
            /\ Len(st'[n].blockchain) = Len(st[n].blockchain) + 1 )
          => st'[n].blockchain[Len(st'[n].blockchain)].round
                = st'[n].current_round ]_vars

\* C23 (as the claim states it): once a node has broadcast PRECOMMIT, its
\* locked_round is the round of its last (its highest) PRECOMMIT and its
\* locked_block the block of that PRECOMMIT.
C23_LockRecordedAtPrecommit ==
    \A n \in Honest :
        st[n].precommit_sent /= <<>>
          => /\ st[n].locked_round = st[n].precommit_sent[1]
             /\ st[n].locked_block /= None
             /\ st[n].locked_block.hash = st[n].precommit_sent[2]

\* C24 (as the claim states it): a round tick that broadcasts COMMIT for its
\* round has broadcast PRECOMMIT for the round, and one that broadcasts
\* PRECOMMIT has broadcast PREPARE for the same block in the round; a round
\* has one tick, so the tick's broadcasts are all the round has.
C24_PhaseOrder ==
    [][ \A n \in Honest :
          st'[n].current_round = st[n].current_round + 1
          => /\ SentInRound(st'[n], "commit") => SentInRound(st'[n], "precommit")
             /\ \A m \in Emitted(st'[n]) :
                  ( /\ m.type = "precommit" /\ m.sender_id = n
                    /\ m.round = st'[n].current_round )
                  => \E q \in Emitted(st'[n]) :
                        /\ q.type = "prepare" /\ q.sender_id = n
                        /\ q.round = m.round /\ q.hash = m.hash ]_vars

\* The block node n holds as current_block when the tick st -> st' reaches
\* its decide step: the one it has just proposed if it leads the round, the
\* one it held before otherwise.
DecidedBlock(n) ==
    IF st'[n].current_leader = n
    THEN CHOOSE b \in { Block(txs, PreviousHash(st[n]), n, st'[n].current_round,
                              st[n].shard_id) : txs \in TxLists } : TRUE
    ELSE st[n].current_block

\* C25: a round tick that decides appends the current block, stores it in
\* checkpoints[current_round] exactly when current_round is a multiple of
\* checkpoint_interval (checkpoints is as it was otherwise), leaves
\* current_block None and the three vote dicts empty, and leaves the lock,
\* the node set, byzantine_nodes, the scores and shard_leaders as they were.
C25_DecideStep ==
    [][ \A n \in Honest :
          ( /\ st'[n].current_round = st[n].current_round + 1
            /\ Len(st'[n].blockchain) = Len(st[n].blockchain) + 1 )
          => /\ st'[n].blockchain = Append(st[n].blockchain, DecidedBlock(n))
             /\ st'[n].checkpoints =
                  IF st'[n].current_round % checkpoint_interval = 0
                  THEN DictSet(st[n].checkpoints, st'[n].current_round, DecidedBlock(n))
                  ELSE st[n].checkpoints
             /\ st'[n].current_block = None
             /\ NoVotes(st'[n])
             /\ st'[n].locked_round = st[n].locked_round
             /\ st'[n].locked_block = st[n].locked_block
             /\ st'[n].nodes = st[n].nodes
             /\ st'[n].byzantine_nodes = st[n].byzantine_nodes
             /\ st'[n].behavior_scores = st[n].behavior_scores
             /\ st'[n].shard_leaders = st[n].shard_leaders ]_vars

\* C25: node Self has decided twice, once in a round that is a multiple of
\* checkpoint_interval (the snapshot is in checkpoints) and once in a round
\* that is not (one snapshot for two blocks).
C25_Witness ==
    /\ Len(st[Self].blockchain) = 2
    /\ DOMAIN st[Self].checkpoints = {checkpoint_interval}
    /\ st[Self].checkpoints[checkpoint_interval] = st[Self].blockchain[2]
    /\ st[Self].current_block = None

\* The block a leader n proposes in the tick st -> st'.
Proposed(n) ==
    CHOOSE b \in { Block(txs, PreviousHash(st[n]), n, st'[n].current_round,
                         st[n].shard_id) : txs \in TxLists } : TRUE

\* The number of PREPARE frames of its present round that node record s2
\* has enqueued for peer p (they are in its batch or were written in its last
\* handler).
PreparesFor(s2, p) ==
    Len(SelectSeq(s2.message_batch \o s2.transmitted,
                  LAMBDA f : /\ f.to = p
                             /\ f.msg.type = "prepare"
                             /\ f.msg.sender_id = s2.node_id
                             /\ f.msg.round = s2.current_round))

\* C26 (as the claim states it): a round tick over a non-empty active set
\* adds one to current_round and sets current_leader to the leader recorded
\* for the node's shard, or else to active[current_round mod |active|]; a
\* node that is that leader holds a new proposal as current_block (or has
\* decided it in the same tick) and has enqueued one PREPARE for it to every
\* other active node, and a node that is not has enqueued no PREPARE.
C26_RoundStart ==
    [][ \A n \in Honest :
          ( /\ st'[n].current_round = st[n].current_round + 1
            /\ Active(st[n]) /= <<>> )
          => LET a == Active(st[n])
             IN  /\ st'[n].current_leader =
                       DictGet(st[n].shard_leaders, st[n].shard_id,
                               a[(st'[n].current_round % Len(a)) + 1])
                 /\ st'[n].current_leader = n
                      => /\ IF st'[n].blockchain = st[n].blockchain
                            THEN st'[n].current_block = Proposed(n)
                            ELSE st'[n].blockchain[Len(st'[n].blockchain)] = Proposed(n)
                         /\ \A p \in NodeIds \ {n} :
                               PreparesFor(st'[n], p) =
                                  IF p \in st[n].nodes \ st[n].byzantine_nodes
                                  THEN 1 ELSE 0
                 /\ st'[n].current_leader /= n
                      => \A p \in NodeIds : PreparesFor(st'[n], p) = 0 ]_vars

\* C27 (as the claim states it): a round tick that finds the active set empty
\* changes nothing: current_round, shard_load, current_leader, current_block,
\* the vote dicts and the chain are as they were.
C27_EmptyActiveSetNoChange ==
    [][ \A n \in Honest :
          ( /\ st[n].nodes \ st[n].byzantine_nodes = {}
            /\ \E txs \in TxLists : Tick(n, txs, {}, TRUE) )
          => /\ st'[n].current_round = st[n].current_round
             /\ st'[n].shard_load = st[n].shard_load
             /\ st'[n].current_leader = st[n].current_leader
             /\ st'[n].current_block = st[n].current_block
             /\ st'[n].prepare_votes = st[n].prepare_votes
             /\ st'[n].precommit_votes = st[n].precommit_votes
             /\ st'[n].commit_votes = st[n].commit_votes
             /\ st'[n].blockchain = st[n].blockchain ]_vars

\* The number of recovery_response frames for round r that node record s
\* holds for peer p, in its batch or written in its last handler.
ResponsesFor(s, p, r) ==
    Len(SelectSeq(s.message_batch \o s.transmitted,
                  LAMBDA f : /\ f.to = p
                             /\ f.msg.type = "recovery_response"
                             /\ f.msg.round = r))

\* Node record s answers request m: handling it enqueues a recovery_response
\* for the round to the sender.
Answers(s, m) ==
    ResponsesFor(process_message(s, m, {}), m.sender_id, m.round)
       > ResponsesFor([s EXCEPT !.transmitted = <<>>], m.sender_id, m.round)

\* C28 (as the claim states it): in every state, a recovery_request for
\* round r is answered with a recovery_response exactly when r is a key of
\* checkpoints or r is less than the length of the chain, whether or not the
\* sender has asked for r before.
C28_RecoveryAnsweredIffHeld ==
    \A m \in RecoveryRequestInputs :
        Answers(st[Self], m)
           <=> \/ m.round \in DOMAIN st[Self].checkpoints
               \/ m.round < Len(st[Self].blockchain)

\* The number of recovery_request frames for round r that node record s
\* holds, in its batch or written in its last handler.
RequestsFor(s, r) ==
    Len(SelectSeq(s.message_batch \o s.transmitted,
                  LAMBDA f : /\ f.msg.type = "recovery_request"
                             /\ f.msg.sender_id = s.node_id
                             /\ f.msg.round = r))

\* C29 (as the claim states it): a node that has recorded (self, r) in
\* recovery_requests, having sent the request for round r, sends no further
\* request for r; every request goes to a peer that is neither the node nor
\* in its byzantine_nodes; and every request sent is recorded.
C29_RecoveryRequestOnce ==
    [][ \A n \in Honest : \A r \in 0 .. MaxTarget :
          /\ <<n, r>> \in st[n].recovery_requests
                => RequestsFor(st'[n], r)
                      <= RequestsFor([st[n] EXCEPT !.transmitted = <<>>], r)
          /\ RequestsFor(st'[n], r) > RequestsFor([st[n] EXCEPT !.transmitted = <<>>], r)
                => <<n, r>> \in st'[n].recovery_requests
          /\ \A i \in 1 .. Len(st'[n].transmitted) :
                st'[n].transmitted[i].msg.type = "recovery_request"
                   => st'[n].transmitted[i].to \notin {n} \cup st[n].byzantine_nodes ]_vars

\* C30 (as the claim states it): handling recovery_response{round r, block B}
\* appends B if r is the length of the chain, replaces chain[r] by B and
\* nothing else if r is less, leaves the chain as it is if r is greater, and
\* in all cases leaves current_round, current_block and the vote dicts as
\* they were.
C30_RecoveryResponseEffect ==
    [][ \A m \in RecoveryResponseInputs :
          Receive(Self, m, {})
          => /\ st'[Self].blockchain =
                  IF m.round = Len(st[Self].blockchain)
                  THEN Append(st[Self].blockchain, m.block)
                  ELSE IF m.round < Len(st[Self].blockchain)
                  THEN [st[Self].blockchain EXCEPT ![m.round + 1] = m.block]
                  ELSE st[Self].blockchain
             /\ st'[Self].current_round = st[Self].current_round
             /\ st'[Self].current_block = st[Self].current_block
             /\ st'[Self].prepare_votes = st[Self].prepare_votes
             /\ st'[Self].precommit_votes = st[Self].precommit_votes
             /\ st'[Self].commit_votes = st[Self].commit_votes ]_vars

\* Self has asked for every round of the served chain, every request and
\* every response has been written and read, and nothing waits in a batch.
Recovered ==
    /\ wire = {}
    /\ \A p \in ConvergePeers : st[p].blockchain = ServedChain
    /\ \A n \in ConvergePeers \cup {Self} : st[n].message_batch = <<>>
    /\ \A r \in 0 .. Len(ServedChain) - 1 :
          /\ <<Self, r>> \in st[Self].recovery_requests
          /\ \E p \in ConvergePeers : <<Self, r>> \in st[p].recovery_requests

\* C31 (as the claim states it): once a node that started with an empty
\* chain has asked peers that hold the same chain for all its rounds, and
\* all requests and responses are delivered, its chain is the peers' chain.
C31_RecoveryConverges ==
    Recovered => st[Self].blockchain = ServedChain

\* The frames of seq addressed to r, as (to, msg) pairs in their order.
FramesTo(seq, r) ==
    [ i \in 1 .. Len(SelectSeq(seq, LAMBDA f : f.to = r)) |->
        [ to |-> r, msg |-> SelectSeq(seq, LAMBDA f : f.to = r)[i].msg ] ]

\* What one flush of the batch of node record s does under the failing
\* connections fails: every peer of fails with a frame in the batch has its
\* score raised by one, is in byzantine_nodes and gets none of its frames;
\* every other peer gets its frames of the batch once, in their order; the
\* batch is empty afterwards.
FlushDropsFailed(s, after, fails) ==
    /\ after.message_batch = <<>>
    /\ \A r \in NodeIds :
          IF r \in fails /\ FramesTo(s.message_batch, r) /= <<>>
          THEN /\ after.behavior_scores[r] = s.behavior_scores[r] + 1
               /\ r \in after.byzantine_nodes
               /\ FramesTo(after.transmitted, r) = <<>>
          ELSE /\ after.behavior_scores[r] = s.behavior_scores[r]
               /\ FramesTo(after.transmitted, r) = FramesTo(s.message_batch, r)

C33_HeldBatchFlushed ==
    [][ (st[Self].batch_due /\ st[Self].message_batch /= <<>>)
          => ~IsPrefix(st[Self].message_batch, st'[Self].message_batch) ]_vars

\* ------------------------------------------------- one sender, one receiver
\* SpecFifo: node Self sends to node FifoPeer from its round driver, from
\* the handler that answers recovery requests and from shard-announcement
\* tasks.  Every flush opens a connection of its own to FifoPeer; wire is
\* the list of these connections in the order they were opened, each with
\* its frames, the number FifoPeer's handler of the connection has read,
\* and whether that handler is still running.
FifoPeer == 0
MaxConns == 2
MaxFifoRound == 1
MaxFifoBatch == 3
HighLoadValue == 101
MaxTasks == 3
\* what random.choice may return in this specification
LeaderMenu == {FifoPeer}

Connection(frames) == [ frames |-> frames, read |-> 0, open |-> TRUE ]

\* The connection the last handler of node record s opened to FifoPeer.
Connected(w, s) ==
    IF FramesTo(s.transmitted, FifoPeer) = <<>> THEN w
    ELSE Append(w, Connection(FramesTo(s.transmitted, FifoPeer)))

InitFifo ==
    /\ InitNodes
    /\ wire = <<>>
    /\ ledger = NewLedger
    /\ proposal = NoBlock

FifoSent ==
    /\ wire' = Connected(wire, st'[Self])
    /\ Len(wire') <= MaxConns
    /\ Len(st'[Self].tasks) <= MaxTasks
    /\ Len(st'[Self].message_batch) <= MaxFifoBatch
    /\ st'[Self].current_round <= MaxFifoRound
    /\ UNCHANGED <<ledger, proposal>>

FifoTick ==
    /\ \E txs \in TxLists : Tick(Self, txs, {}, TRUE)
    /\ FifoSent

\* Node Self is handed a block and is asked for it by FifoPeer.
FifoReply ==
    /\ \E m \in {RecoveryResponseMsg(3, 0, BlockA), RecoveryRequestMsg(FifoPeer, 0)} :
          Receive(Self, m, {})
    /\ FifoSent

\* Node Self reads a shard_load message.
FifoShardLoad ==
    /\ \E leader \in LeaderMenu \cap (st[Self].nodes \ st[Self].byzantine_nodes) :
          st' = [st EXCEPT ![Self] =
                    process_shard_load(st[Self], 1, HighLoadValue, leader)]
    /\ FifoSent

FifoTask ==
    /\ st[Self].tasks /= <<>>
    /\ st' = [st EXCEPT ![Self] = run_task(st[Self], {})]
    /\ FifoSent

\* The round driver of FifoPeer.
FifoPeerTick ==
    /\ \E txs \in TxLists : Tick(FifoPeer, txs, {}, TRUE)
    /\ st'[FifoPeer].current_round <= MaxFifoRound
    /\ UNCHANGED <<wire, ledger, proposal>>

\* handle_message, lines 120-121: the frame does not decrypt under the
\* receiver's key, or does not parse.
Undecryptable(s) == [Enter(s) EXCEPT !.raised = TRUE]

\* A handler that goes on to the next frame after an exception.
FifoRead_resume(i, decrypts) ==
    /\ wire[i].open
    /\ wire[i].read < Len(wire[i].frames)
    /\ IF decrypts
       THEN Receive(FifoPeer, wire[i].frames[wire[i].read + 1].msg, {})
       ELSE st' = [st EXCEPT ![FifoPeer] = Undecryptable(@)]
    /\ wire' = [wire EXCEPT ![i].read = @ + 1]
    /\ UNCHANGED <<ledger, proposal>>

\* FifoPeer's handler of connection i reads the connection's next frame,
\* decrypts it and calls process_message on it; an exception of any of the
\* three ends the handler.
FifoRead(i, decrypts) ==
    /\ wire[i].open
    /\ wire[i].read < Len(wire[i].frames)
    /\ IF decrypts
       THEN Receive(FifoPeer, wire[i].frames[wire[i].read + 1].msg, {})
       ELSE st' = [st EXCEPT ![FifoPeer] = Undecryptable(@)]
    /\ wire' = [wire EXCEPT ![i].read = @ + 1,
                            ![i].open = ~st'[FifoPeer].raised]
    /\ UNCHANGED <<ledger, proposal>>

NextFifo ==
    \/ FifoTick
    \/ FifoReply
    \/ FifoShardLoad
    \/ FifoTask
    \/ FifoPeerTick
    \/ TimePasses(Self) /\ UNCHANGED <<wire, ledger, proposal>>
    \/ AdjustTimePasses(Self) /\ UNCHANGED <<wire, ledger, proposal>>
    \/ \E i \in 1 .. Len(wire), decrypts \in BOOLEAN : FifoRead(i, decrypts)

SpecFifo == InitFifo /\ [][NextFifo]_vars

\* C34 (as the claim states it): the receiver processes no frame of a
\* connection after it has processed a frame of a connection the sender
\* opened later, so that the frames of one sender are processed in the order
\* they were enqueued.
C34_PerPeerFIFO ==
    [][ \A i \in 1 .. Len(wire) : \A j \in 1 .. Len(wire) :
            (i < j /\ wire'[i].read > wire[i].read) => wire[j].read = 0 ]_vars

\* The fields of node record s that the program holds (the model's history
\* fields left out).
ProgramState(s) ==
    [s EXCEPT !.transmitted = <<>>, !.raised = FALSE, !.precommit_sent = <<>>]

RebalanceRecordsNewShard(s, after) ==
    after.tasks /= s.tasks =>
        /\ s.adjust_due
        /\ HighLoad(after)
        /\ \E k \in DOMAIN after.shard_leaders :
              /\ k \notin DOMAIN s.shard_leaders
              /\ \A j \in DOMAIN after.shard_load \cup DOMAIN s.shard_leaders : j < k
              /\ after.shard_leaders[k] \in after.nodes \ after.byzantine_nodes
              /\ \A j \in DOMAIN s.shard_leaders :
                    after.shard_leaders[j] = s.shard_leaders[j]

\* C36 (as the claim states it): a rebalance fires only when the adjustment
\* interval has passed and the mean shard load exceeds 100, and it records a
\* leader from nodes minus byzantine_nodes for a shard id greater than every
\* shard id the node knows, overwriting no leader entry, the entries of
\* earlier rebalances included.
C36_RebalanceNewShard ==
    \A leader \in st[Self].nodes \ st[Self].byzantine_nodes :
        RebalanceRecordsNewShard(
            st[Self], process_shard_load(st[Self], 1, HighLoadValue, leader))

\* The voter ids held in the three vote dicts of node record s.
Voters(s) ==
    DictKeys(s.prepare_votes) \cup DictKeys(s.precommit_votes)
        \cup DictKeys(s.commit_votes)

\* C37 (as the claim states it): at every round tick, where the quorums are
\* checked, every voter id in the three vote dicts is in nodes minus
\* byzantine_nodes.
C37_OnlyActiveVotersCounted ==
    [][ \A n \in Honest :
          (\E txs \in TxLists : Tick(n, txs, {}, TRUE))
              => Voters(st[n]) \subseteq st[n].nodes \ st[n].byzantine_nodes ]_vars

\* C38 (as the claim states it): after every round tick that finds an active
\* node and does not end by an exception, current_leader is in nodes minus
\* byzantine_nodes.
C38_LeaderIsActive ==
    [][ \A n \in Honest :
          ( /\ st'[n].current_round = st[n].current_round + 1
            /\ ~st'[n].raised
            /\ st[n].nodes \ st[n].byzantine_nodes /= {} )
          => st'[n].current_leader \in st'[n].nodes \ st'[n].byzantine_nodes ]_vars

\* C39 (as the claim states it): a node that holds a vote in any of its vote
\* dicts holds a current block; no block of its chain is the absent block;
\* and a round tick of a process in which Block() can be built ends by no
\* exception, so that no broadcast reads the hash of an absent block.
C39_VotesImplyBlock ==
    \A n \in Honest :
        /\ Voters(st[n]) /= {} => st[n].current_block /= None
        /\ \A i \in 1 .. Len(st[n].blockchain) : st[n].blockchain[i] /= None
        /\ \A txs \in TxLists :
              st[n].block_time => ~run_consensus_round(st[n], txs, {}).raised

\* A node that has decided a block holds votes of all three types for the
\* block of a later round.
C39_Witness ==
    /\ Len(st[Self].blockchain) >= 1
    /\ st[Self].prepare_votes /= <<>>
    /\ st[Self].precommit_votes /= <<>>
    /\ st[Self].commit_votes /= <<>>

\* The sum of the balances of the accounts of keys.
RECURSIVE TotalOver(_, _)
TotalOver(balances, keys) ==
    IF keys = {} THEN 0
    ELSE balances[CHOOSE a \in keys : TRUE]
         + TotalOver(balances, keys \ {CHOOSE a \in keys : TRUE})

\* C40 (as the claim states it): the sum of all balances equals the sum of
\* the balances the operator seeded, after any sequence of admits, proposals
\* and commits.
C40_ValueConserved ==
    TotalOver(ledger.balances, DOMAIN ledger.balances)
        = TotalOver(ledger.seed, DOMAIN ledger.seed)

\* Two blocks are committed, and they opened an account by a debit (Dave,
\* below zero) and one by a credit (Carol).
C40_Witness ==
    /\ Len(ledger.blockchain) = 2
    /\ "Dave" \in DOMAIN ledger.balances
    /\ ledger.balances["Dave"] < 0
    /\ "Carol" \in DOMAIN ledger.balances
====
